---- MODULE Spec2Model ----
(***************************************************************************)
(* Ambulance-to-hospital dispatch: triage scoring, hospital routing and    *)
(* the acceptance handshake between the ambulance server                   *)
(* (src/clite/hospital/app.py, port 5000) and the hospital server          *)
(* (src/clite/hospital_view.py, port 5001).                                *)
(*                                                                         *)
(* Conventions of the model                                                *)
(*  - A text on which the code runs a substring test (`x in y`) is a       *)
(*    sequence of chunks; the chunks are cut so that every needle the code *)
(*    searches for starts and ends on a chunk boundary, and `in` is the    *)
(*    contiguous-subsequence test.                                         *)
(*  - Decimal quantities are integers in a fixed unit: distance_km in      *)
(*    tenths of a km, traffic_factor in hundredths, vitals in tenths.      *)
(*  - Python's None is None, NoneText or NullId, by the type expected.     *)
(*  - Every ambulance-side handler is one atomic step (one request at a    *)
(*    time on that server); update_acceptance on the hospital server is    *)
(*    split at its outbound HTTP call, where other requests interleave.    *)
(***************************************************************************)
EXTENDS Integers, Sequences, FiniteSets, Bags, TLC

None == "None"
\* None where a text (a sequence of chunks) is expected.
NoneText == << "None" >>
\* None where a case id is expected (ids start at 1).
NullId == 0

(***************************************************************************)
(* Bounds of the model.                                                    *)
(***************************************************************************)
\* rows a table `case` holds in a run
MaxCases == 2
\* cases dispatched in a run of Spec, SpecRouting, SpecHandshake and SpecTriage
MaxDispatch == 1
\* update_acceptance requests waiting for their push at the same time
MaxInflight == 2
\* rejected_history entries of a case while both servers run (Spec)
MaxReroutes == 1
\* rejected_history entries that are not the hospital the case was routed to
\* when they were added (SpecRouting)
MaxStray == 1

(***************************************************************************)
(* Text helpers.                                                           *)
(***************************************************************************)
\* Python `needle in hay` on chunked text.
Contains(needle, hay) ==
    \E i \in 0..(Len(hay) - Len(needle)) :
        SubSeq(hay, i + 1, i + Len(needle)) = needle

\* Python `x in list`.
InList(x, list) == \E i \in 1..Len(list) : list[i] = x

\* round(n / q) for integers n >= 0, q > 0 (Python 3 rounds halves to even).
RoundDiv(n, q) ==
    LET fl == n \div q
        r2 == 2 * (n % q)
    IN  IF r2 < q THEN fl
        ELSE IF r2 > q THEN fl + 1
        ELSE IF fl % 2 = 0 THEN fl ELSE fl + 1

(***************************************************************************)
(* Hospital directory: _simulate_doctors and _get_hardcoded_hospitals.     *)
(***************************************************************************)
base_hospitals ==
    << [name |-> << "SPARSH", " ", "Hospital" >>],
       [name |-> << "Navya", " ", "Multi", "speciality", " ", "Hospital" >>],
       [name |-> << "K", " ", "K", " ", "Hospital" >>],
       [name |-> << "Cytecare", " ", "Cancer", " ", "Hospital", "s" >>],
       [name |-> << "Aster", " ", "CMI", " ", "Hospital" >>],
       [name |-> << "Government", " ", "General", " ", "Hospital" >>] >>

SpecGeneralTrauma == << "General", " ", "Trauma", " ", "&", " ", "ER" >>
SpecOncology == << "Oncology", " ", "ONLY" >>
SpecCriticalNeuro == << "Critical", " ", "Care", " ", "&", " ", "Neuro" >>
SpecGeneralCritical == << "General", " ", "Critical", " ", "Care" >>

\* timing_factor in tenths: 1.2 when the local hour is < 7 or > 20, else 1.0.
timing_factor(time_hour) == IF time_hour < 7 \/ time_hour > 20 THEN 12 ELSE 10

\* The specialty tag given to a hospital by the name-substring rule.
SpecialtyOf(name) ==
    IF Contains(<< "Cancer" >>, name) \/ Contains(<< "Oncology" >>, name)
       \/ Contains(<< "Cytecare" >>, name)
    THEN SpecOncology
    ELSE IF Contains(<< "SPARSH" >>, name) \/ Contains(<< "Aster" >>, name)
    THEN SpecCriticalNeuro
    ELSE IF Contains(<< "Multi" >>, name) \/ Contains(<< "Government" >>, name)
    THEN SpecGeneralCritical
    ELSE SpecGeneralTrauma

\* simulated_distance = round(6.0 + i*0.4 + (i % 3)*0.2, 1), in tenths of a km.
simulated_distance(i) == 60 + (i * 4) + ((i % 3) * 2)

\* traffic_factor = round(1.0 + (i % 4)*0.1 + (i % 5)*0.05, 2), in hundredths.
traffic_factor(i) == 100 + ((i % 4) * 10) + ((i % 5) * 5)

\* One directory entry; i is the 0-based position in base_hospitals.
HospitalEntry(i, time_hour) ==
    [name |-> base_hospitals[i + 1].name,
     specialty |-> SpecialtyOf(base_hospitals[i + 1].name),
     distance_km |-> simulated_distance(i),
     traffic_factor |-> RoundDiv(traffic_factor(i) * timing_factor(time_hour), 10)]

_get_hardcoded_hospitals(time_hour) ==
    [k \in 1..Len(base_hospitals) |-> HospitalEntry(k - 1, time_hour)]

(***************************************************************************)
(* Routing cost and ETA.                                                   *)
(***************************************************************************)
\* The IEEE-754 double product distance_km * traffic_factor is not the double
\* nearest to the exact decimal product: MulRoundingUlps is its distance from
\* that double, in units in the last place, for the operand pairs of the
\* directory (7.2 * 1.3 = 9.360000000000001 but 7.8 * 1.2 = 9.36).
MulRoundingUlps(d10, t100) ==
    CASE d10 = 66 /\ t100 = 115 -> -1
      [] d10 = 72 /\ t100 = 130 -> 1
      [] d10 = 84 /\ t100 = 110 -> 1
      [] d10 = 60 /\ t100 = 120 -> -1
      [] d10 = 66 /\ t100 = 138 -> -1
      [] d10 = 72 /\ t100 = 156 -> 1
      [] d10 = 84 /\ t100 = 132 -> 1
      [] OTHER -> 0

\* key=lambda h: h.get('distance_km') * h.get('traffic_factor'): an integer
\* that orders as the double products do (exact thousandths first, then the
\* rounding error of the multiplication).
RouteCost(h) ==
    (h.distance_km * h.traffic_factor * 8)
    + MulRoundingUlps(h.distance_km, h.traffic_factor)

\* Variant: the first entry of the list, whatever its cost.
FirstHospital(list) == list[1]

\* Python min(list, key=...): the first element of the list with the least key.
RECURSIVE MinIndexFrom(_, _, _)
MinIndexFrom(list, best, i) ==
    IF i > Len(list) THEN best
    ELSE IF RouteCost(list[i]) < RouteCost(list[best])
         THEN MinIndexFrom(list, i, i + 1)
         ELSE MinIndexFrom(list, best, i + 1)

BestHospital(list) == list[MinIndexFrom(list, 1, 2)]

\* simulated_eta = round((distance_km / 0.67) * traffic_factor), in minutes.
SimulatedEta(h) == RoundDiv(h.distance_km * h.traffic_factor, 670)

(***************************************************************************)
(* Vitals.  A vitals field is the text between two commas; float(text)     *)
(* succeeds exactly when num is TRUE, with value v (in tenths).            *)
(***************************************************************************)
Num(v10) == [num |-> TRUE, v |-> v10, s |-> "#"]
Txt(text) == [num |-> FALSE, v |-> 0, s |-> text]

\* float(vitals[k]) raises (IndexError, ValueError); k is the 0-based index.
FloatRaises(vitals, k) == Len(vitals) <= k \/ ~vitals[k + 1].num

\* Variant: a respiratory rate below 9 is scored like a normal one.
MewsPointsNoLowResp(resp_rate, hr, bp_sys, o2) ==
    (IF resp_rate > 250 THEN 3
     ELSE IF resp_rate > 200 THEN 2
     ELSE IF resp_rate > 150 THEN 1 ELSE 0)
    + (IF hr < 400 \/ hr > 1300 THEN 3
       ELSE IF hr > 1100 THEN 2
       ELSE IF hr < 500 \/ hr > 900 THEN 1 ELSE 0)
    + (IF bp_sys < 700 \/ bp_sys > 2000 THEN 3
       ELSE IF bp_sys < 900 THEN 2
       ELSE IF bp_sys > 1800 THEN 1 ELSE 0)
    + (IF o2 < 900 THEN 2 ELSE 0)

\* Variant: the first respiratory point is given above 16 rather than above 15.
MewsPointsLenientResp(resp_rate, hr, bp_sys, o2) ==
    (IF resp_rate < 90 \/ resp_rate > 250 THEN 3
     ELSE IF resp_rate > 200 THEN 2
     ELSE IF resp_rate > 160 THEN 1 ELSE 0)
    + (IF hr < 400 \/ hr > 1300 THEN 3
       ELSE IF hr > 1100 THEN 2
       ELSE IF hr < 500 \/ hr > 900 THEN 1 ELSE 0)
    + (IF bp_sys < 700 \/ bp_sys > 2000 THEN 3
       ELSE IF bp_sys < 900 THEN 2
       ELSE IF bp_sys > 1800 THEN 1 ELSE 0)
    + (IF o2 < 900 THEN 2 ELSE 0)

\* The four-vital points as calculate_mews_score adds them up.
MewsPoints(resp_rate, hr, bp_sys, o2) ==
    (IF resp_rate < 90 \/ resp_rate > 250 THEN 3
     ELSE IF resp_rate > 200 THEN 2
     ELSE IF resp_rate > 150 THEN 1 ELSE 0)
    + (IF hr < 400 \/ hr > 1300 THEN 3
       ELSE IF hr > 1100 THEN 2
       ELSE IF hr < 500 \/ hr > 900 THEN 1 ELSE 0)
    + (IF bp_sys < 700 \/ bp_sys > 2000 THEN 3
       ELSE IF bp_sys < 900 THEN 2
       ELSE IF bp_sys > 1800 THEN 1 ELSE 0)
    + (IF o2 < 900 THEN 2 ELSE 0)

calculate_mews_score(vitals) ==
    IF FloatRaises(vitals, 1) \/ FloatRaises(vitals, 3)
       \/ FloatRaises(vitals, 6) \/ FloatRaises(vitals, 4)
    THEN 0
    ELSE MewsPoints(vitals[7].v, vitals[4].v, vitals[2].v, vitals[5].v)

\* str.lower() on the chunks that occur in the symptom texts of the model.
LowerChunk(c) ==
    CASE c = "Severe" -> "severe"
      [] c = "CHEST" -> "chest"
      [] c = "PAIN" -> "pain"
      [] c = "Trauma" -> "trauma"
      [] OTHER -> c

Lower(text) == [i \in 1..Len(text) |-> LowerChunk(text[i])]

dangerous_keywords ==
    << << "unconscious" >>, << "bleeding" >>, << "chest", " ", "pain" >>,
       << "respiratory", " ", "arrest" >>, << "no", " ", "pulse" >>,
       << "collapse" >>, << "seizure" >>, << "severe" >>,
       << "breathing", " ", "difficulty" >>, << "fracture" >>,
       << "trauma" >>, << "stroke" >>, << "severe", " ", "pain" >> >>

\* symptom_score: 2 for every keyword that occurs in the lower-cased text.
RECURSIVE SymptomScoreFrom(_, _)
SymptomScoreFrom(symptoms, k) ==
    IF k > Len(dangerous_keywords) THEN 0
    ELSE (IF Contains(dangerous_keywords[k], symptoms) THEN 2 ELSE 0)
         + SymptomScoreFrom(symptoms, k + 1)

\* Variant: every match toggles the boost instead of adding to it.
symptom_score_toggle(symptoms_str) ==
    LET boost == SymptomScoreFrom(Lower(IF symptoms_str = NoneText THEN << >>
                                        ELSE symptoms_str), 1)
    IN  IF (boost \div 2) % 2 = 1 THEN 2 ELSE 0

\* Variant: the loop over the keywords stops at the first match.
symptom_score_first(symptoms_str) ==
    IF SymptomScoreFrom(Lower(IF symptoms_str = NoneText THEN << >> ELSE symptoms_str), 1) > 0
    THEN 2 ELSE 0

symptom_score(symptoms_str) ==
    SymptomScoreFrom(Lower(IF symptoms_str = NoneText THEN << >> ELSE symptoms_str), 1)

\* A field of analyze_vitals_from_client: the default when the field is
\* missing or empty, float(field) otherwise.
FieldPresent(vitals_list, k) == Len(vitals_list) > k /\ vitals_list[k + 1].s # ""
\* Variant: only the four scored fields are converted.
FieldRaisesScored(vitals_list, k) ==
    k \in {1, 3, 4, 6} /\ FieldPresent(vitals_list, k) /\ ~vitals_list[k + 1].num

FieldRaises(vitals_list, k) == FieldPresent(vitals_list, k) /\ ~vitals_list[k + 1].num
FieldValue(vitals_list, k, default) ==
    IF FieldPresent(vitals_list, k) THEN vitals_list[k + 1].v ELSE default

PredUndetermined == "UNDETERMINED"
PredLikelyCritical == "Likely Critical - Immediate attention advised"
PredPotentiallySerious == "Potentially Serious - Monitor and expedite transport"
PredStable == "Stable / Non-critical"

\* Variant: the copy of the table lacks the systolic pressure.
ClientScoreNoPressure(resp, hr, bp_sys, o2) ==
    (IF resp < 90 \/ resp > 250 THEN 3
     ELSE IF resp > 200 THEN 2
     ELSE IF resp > 150 THEN 1 ELSE 0)
    + (IF hr < 400 \/ hr > 1300 THEN 3
       ELSE IF hr > 1100 THEN 2
       ELSE IF hr < 500 \/ hr > 900 THEN 1 ELSE 0)
    + (IF o2 < 900 THEN 2 ELSE 0)

\* The score of analyze_vitals_from_client from its own copy of the table.
ClientScore(resp, hr, bp_sys, o2) ==
    (IF resp < 90 \/ resp > 250 THEN 3
     ELSE IF resp > 200 THEN 2
     ELSE IF resp > 150 THEN 1 ELSE 0)
    + (IF hr < 400 \/ hr > 1300 THEN 3
       ELSE IF hr > 1100 THEN 2
       ELSE IF hr < 500 \/ hr > 900 THEN 1 ELSE 0)
    + (IF bp_sys < 700 \/ bp_sys > 2000 THEN 3
       ELSE IF bp_sys < 900 THEN 2
       ELSE IF bp_sys > 1800 THEN 1 ELSE 0)
    + (IF o2 < 900 THEN 2 ELSE 0)

total_risk(vitals_list, symptoms_str) ==
    ClientScore(FieldValue(vitals_list, 6, 160), FieldValue(vitals_list, 3, 800),
                FieldValue(vitals_list, 1, 1200), FieldValue(vitals_list, 4, 980))
    + symptom_score(symptoms_str)

\* (prediction, is_critical)
analyze_vitals_from_client(vitals_list, symptoms_str) ==
    IF \E k \in {0, 1, 3, 4, 5, 6} : FieldRaises(vitals_list, k)
    THEN [prediction |-> PredUndetermined, is_critical |-> FALSE]
    ELSE IF total_risk(vitals_list, symptoms_str) >= 6
    THEN [prediction |-> PredLikelyCritical, is_critical |-> TRUE]
    ELSE IF total_risk(vitals_list, symptoms_str) >= 3
    THEN [prediction |-> PredPotentiallySerious, is_critical |-> TRUE]
    ELSE [prediction |-> PredStable, is_critical |-> FALSE]

\* (dashboard_status, critical_count)
analyze_vitals_for_dashboard(vitals_list) ==
    IF calculate_mews_score(vitals_list) >= 5
    THEN [dashboard_status |-> "HIGH PRIORITY", critical_count |-> 3]
    ELSE IF calculate_mews_score(vitals_list) >= 3
    THEN [dashboard_status |-> "MEDIUM PRIORITY", critical_count |-> 2]
    ELSE [dashboard_status |-> "STANDARD PRIORITY", critical_count |-> 1]

\* vitals_list after the padding of analyze_data to 7 fields with 'N/A'.
PadVitals(vitals_list) ==
    IF Len(vitals_list) < 7
    THEN vitals_list \o [i \in 1..(7 - Len(vitals_list)) |-> Txt("N/A")]
    ELSE vitals_list

(***************************************************************************)
(* Eligibility (analyze_data) and the remaining hospitals                  *)
(* (suggest_alternative).                                                  *)
(***************************************************************************)
target_tags ==
    << << "Critical", " ", "Care" >>, << "Trauma" >>, << "Neuro" >>,
       << "Oncology" >>, SpecCriticalNeuro, SpecGeneralCritical >>

TagMatch(h) == \E t \in 1..Len(target_tags) : Contains(target_tags[t], h.specialty)

\* Variant: a critical case gets no candidate at all (the tag filter reads a
\* key no entry has, and the fallback to the whole directory is missing).
EligibleTagged(directory, is_critical) ==
    IF is_critical THEN << >> ELSE directory

Eligible(directory, is_critical) ==
    LET eligible == IF is_critical THEN SelectSeq(directory, TagMatch) ELSE directory
    IN  IF eligible = << >> /\ directory # << >> THEN directory ELSE eligible

(***************************************************************************)
(* State.                                                                  *)
(***************************************************************************)
VARIABLES
    HOSPITAL_DATA,   \* the ambulance server's directory, set at start-up
    cases,           \* ambulance-side table `case`: cases[id] is the row id
    hospital_cases,  \* hospital-side table `case`: id -> acceptance_status
    inflight,        \* bag of pushes sent by update_acceptance, not answered
    last,            \* the HTTP response of the last completed step
    namedOk,         \* history: id -> the names given by the successful re-routes
    strays           \* history: the re-routes that named a hospital out of turn

vars == << HOSPITAL_DATA, cases, hospital_cases, inflight, last, namedOk, strays >>

AwaitingResponse == "AWAITING RESPONSE"
Accepted == "ACCEPTED"
Rejected == "REJECTED"
OnHold == "ON HOLD"
Absent == "<no row>"

\* ["ACCEPTED", "REJECTED", "ON HOLD"] of update_acceptance.
Settable == { Accepted, Rejected, OnHold }
ValidStatus == Settable \cup { AwaitingResponse }

\* The status values a request body may carry (None: no 'status' key).
StatusInputs == ValidStatus \cup { "DIVERTED", None }

\* The case ids a request may name; MaxCases + 1 is never a stored id.
CaseIds == 1..(MaxCases + 1)
StoredIds == 1..MaxCases
\* The same where at most MaxDispatch cases are dispatched.
DispatchIds == 1..(MaxDispatch + 1)
DispatchStored == 1..MaxDispatch

UnlistedName == << "Unlisted", " ", "Clinic" >>
DirectoryNames == { base_hospitals[i].name : i \in 1..Len(base_hospitals) }

\* The current_hospital values of a suggest-alternative body (None: no key;
\* the empty text is falsy like None).
NameInputs == DirectoryNames \cup { UnlistedName, << >>, NoneText }

\* Bodies of /api/analyze: vitals is the list of comma-separated fields
\* (empty: the key is missing or the string is empty), symptoms is NoneText or
\* a text.  ExampleBodies: a critical dispatch and a request without vitals.
ExampleBodies ==
    { [vitals |-> << Num(700), Num(1900), Num(1100), Num(1350), Num(850),
                     Num(1010), Num(270) >>,
       symptoms |-> << "severe", " ", "chest", " ", "pain" >>],
      [vitals |-> << >>, symptoms |-> << "collapse" >>] }

\* AnalyzeBodies adds a stable patient and a short, malformed vitals string.
AnalyzeBodies ==
    ExampleBodies \cup
    { [vitals |-> << Num(400), Num(1200), Num(800), Num(750), Num(980),
                     Num(986), Num(160) >>,
       symptoms |-> NoneText],
      [vitals |-> << Num(400), Txt("abc"), Num(800) >>,
       symptoms |-> << "Severe", " ", "Trauma" >>] }

\* `last` records the last completed step: the request (case_id, status,
\* named), its answer (code, msg, new_case_id, is_critical, hospital), how the
\* push of an update_acceptance ended (push) and the acceptance_status the
\* step found on the ambulance side (was).  code 0: no answer yet.
NoResponse ==
    [op |-> "start", case_id |-> NullId, code |-> 0, msg |-> "", status |-> None,
     push |-> "", new_case_id |-> NullId, is_critical |-> FALSE,
     hospital |-> NoneText, named |-> NoneText, was |-> None]

Response(op, case_id, code, msg) ==
    [NoResponse EXCEPT !.op = op, !.case_id = case_id, !.code = code, !.msg = msg]

Present(id) == id \in 1..Len(cases)
HospitalPresent(id) == id \in StoredIds /\ hospital_cases[id] # Absent

\* No case on the ambulance server.  The hospital server starts on the table
\* its database file holds (db.create_all keeps existing rows; no handler of
\* the hospital server inserts one): a row may exist for a case id, with the
\* column default of acceptance_status.
InitStores ==
    /\ cases = << >>
    /\ \E rows \in SUBSET StoredIds :
          hospital_cases = [id \in StoredIds |->
                              IF id \in rows THEN AwaitingResponse ELSE Absent]
    /\ inflight = EmptyBag
    /\ last = NoResponse
    /\ namedOk = [id \in StoredIds |-> {}]
    /\ strays = 0

\* HOSPITAL_DATA as initialize_app_data computes it at the local hour.
Init ==
    /\ \E time_hour \in 0..23 : HOSPITAL_DATA = _get_hardcoded_hospitals(time_hour)
    /\ InitStores

\* The directory global as the module defines it before initialize_app_data
\* fills it (HOSPITAL_DATA = None, read by the handlers as HOSPITAL_DATA or []):
\* the empty directory the handlers guard against.
InitNoDirectory ==
    /\ HOSPITAL_DATA = << >>
    /\ InitStores

(***************************************************************************)
(* POST /api/analyze                                                       *)
(***************************************************************************)
\* The row that analyze_data adds for best_hospital.
NewCase(vitals_list, symptoms_str, best_hospital) ==
    [vitals_snapshot |-> vitals_list,
     symptoms_snapshot |-> symptoms_str,
     ai_prediction |-> analyze_vitals_from_client(vitals_list, symptoms_str).prediction,
     is_critical |-> analyze_vitals_from_client(vitals_list, symptoms_str).is_critical,
     hospital_name |-> best_hospital.name,
     hospital_specialty |-> best_hospital.specialty,
     distance_km |-> best_hospital.distance_km,
     simulated_eta_min |-> SimulatedEta(best_hospital),
     mews_score |-> calculate_mews_score(vitals_list),
     acceptance_status |-> AwaitingResponse,
     rejected_history |-> << >>]

MsgVitalsMissing == "Vitals data is missing."

analyze_data(body, commit_ok) ==
    IF body.vitals = << >>
    THEN /\ last' = Response("analyze", NullId, 400, MsgVitalsMissing)
         /\ UNCHANGED << HOSPITAL_DATA, cases, hospital_cases, inflight, namedOk, strays >>
    ELSE
    LET vitals_list == PadVitals(body.vitals)
        triage == analyze_vitals_from_client(vitals_list, body.symptoms)
        eligible == Eligible(HOSPITAL_DATA, triage.is_critical)
        routed == eligible # << >>
        stored == routed /\ commit_ok
    IN  /\ Len(cases) < MaxCases
        /\ cases' = IF stored
                    THEN Append(cases, NewCase(vitals_list, body.symptoms,
                                               BestHospital(eligible)))
                    ELSE cases
        /\ last' = [Response("analyze", NullId, 200, "") EXCEPT
                      !.is_critical = triage.is_critical,
                      !.hospital = IF routed THEN BestHospital(eligible).name
                                   ELSE NoneText,
                      !.new_case_id = IF stored THEN Len(cases) + 1 ELSE NullId]
        /\ UNCHANGED << HOSPITAL_DATA, hospital_cases, inflight, namedOk, strays >>

(***************************************************************************)
(* POST /api/suggest-alternative/<case_id>                                 *)
(***************************************************************************)
\* Variant: a named hospital is appended although the history holds it.
HistoryRepeated(history, rejected_hospital_name) ==
    IF rejected_hospital_name # NoneText /\ rejected_hospital_name # << >>
    THEN Append(history, rejected_hospital_name)
    ELSE history

\* Variant: the named hospital is not added to the history.
HistoryKept(history, rejected_hospital_name) == history

\* history after "if rejected_hospital_name and rejected_hospital_name not in
\* history: history.append(rejected_hospital_name)".
HistoryWith(history, rejected_hospital_name) ==
    IF rejected_hospital_name # NoneText /\ rejected_hospital_name # << >>
       /\ ~InList(rejected_hospital_name, history)
    THEN Append(history, rejected_hospital_name)
    ELSE history

\* Variant: the filter uses the history without its newest entry.
RemainingStale(directory, history) ==
    LET NotRejected(h) == ~InList(h.name, SubSeq(history, 1, Len(history) - 1))
    IN  SelectSeq(directory, NotRejected)

\* Variant: the re-route keeps only the hospitals whose specialty names
\* critical care.
RemainingCriticalCare(directory, history) ==
    LET Kept(h) == /\ ~InList(h.name, history)
                   /\ Contains(<< "Critical", " ", "Care" >>, h.specialty)
    IN  SelectSeq(directory, Kept)

\* Variant: only the hospital rejected last is excluded.
RemainingButLast(directory, history) ==
    LET NotLast(h) == history = << >> \/ h.name # history[Len(history)]
    IN  SelectSeq(directory, NotLast)

\* remaining_hospitals: the directory entries whose name is not in history.
Remaining(directory, history) ==
    LET NotRejected(h) == ~InList(h.name, history)
    IN  SelectSeq(directory, NotRejected)

\* Variant: the re-route keeps the acceptance_status it found.
ReroutedKeepStatus(case, best_hospital, history) ==
    [case EXCEPT !.hospital_name = best_hospital.name,
                 !.hospital_specialty = best_hospital.specialty,
                 !.distance_km = best_hospital.distance_km,
                 !.simulated_eta_min = SimulatedEta(best_hospital),
                 !.rejected_history = history]

\* The row after the six assignments of suggest_alternative.
Rerouted(case, best_hospital, history) ==
    [case EXCEPT !.hospital_name = best_hospital.name,
                 !.hospital_specialty = best_hospital.specialty,
                 !.distance_km = best_hospital.distance_km,
                 !.simulated_eta_min = SimulatedEta(best_hospital),
                 !.acceptance_status = AwaitingResponse,
                 !.rejected_history = history]

MsgCaseNotFound == "Case not found."
MsgNoOtherHospitals == "No other hospitals available in network."

\* The answer of suggest_alternative: status code and message.
SuggestAnswer(case_id, rejected_hospital_name, commit_ok) ==
    IF ~Present(case_id)
    THEN [code |-> 404, msg |-> MsgCaseNotFound]
    ELSE IF Remaining(HOSPITAL_DATA, HistoryWith(cases[case_id].rejected_history,
                                                  rejected_hospital_name)) = << >>
    THEN [code |-> 404, msg |-> MsgNoOtherHospitals]
    ELSE IF ~commit_ok
    THEN [code |-> 500, msg |-> "DB Error"]
    ELSE [code |-> 200, msg |-> ""]

\* Variant: the six assignments stay although the commit failed.
SuggestStoreUncommitted(case_id, rejected_hospital_name, commit_ok) ==
    IF SuggestAnswer(case_id, rejected_hospital_name, commit_ok).code \in { 200, 500 }
    THEN LET history == HistoryWith(cases[case_id].rejected_history,
                                    rejected_hospital_name)
         IN  [cases EXCEPT ![case_id] =
                Rerouted(@, BestHospital(Remaining(HOSPITAL_DATA, history)), history)]
    ELSE cases

\* Variant: the grown history is stored before the exhaustion check.
SuggestStoreEager(case_id, rejected_hospital_name, commit_ok) ==
    IF ~Present(case_id) THEN cases
    ELSE LET history == HistoryWith(cases[case_id].rejected_history,
                                    rejected_hospital_name)
         IN  IF Remaining(HOSPITAL_DATA, history) = << >>
             THEN [cases EXCEPT ![case_id].rejected_history = history]
             ELSE IF commit_ok
             THEN [cases EXCEPT ![case_id] =
                     Rerouted(@, BestHospital(Remaining(HOSPITAL_DATA, history)),
                              history)]
             ELSE cases

\* Variant: the re-routed case is stored as a new record.
SuggestStoreAsNew(case_id, rejected_hospital_name, commit_ok) ==
    IF SuggestAnswer(case_id, rejected_hospital_name, commit_ok).code = 200
    THEN LET history == HistoryWith(cases[case_id].rejected_history,
                                    rejected_hospital_name)
         IN  Append(cases,
                    Rerouted(cases[case_id],
                             BestHospital(Remaining(HOSPITAL_DATA, history)),
                             history))
    ELSE cases

\* The ambulance-side table after suggest_alternative.
SuggestStore(case_id, rejected_hospital_name, commit_ok) ==
    IF SuggestAnswer(case_id, rejected_hospital_name, commit_ok).code = 200
    THEN LET history == HistoryWith(cases[case_id].rejected_history,
                                    rejected_hospital_name)
         IN  [cases EXCEPT ![case_id] =
                Rerouted(@, BestHospital(Remaining(HOSPITAL_DATA, history)), history)]
    ELSE cases

\* The request names a hospital that is neither the one the case is routed to
\* nor one already rejected.
IsStray(id, name) ==
    /\ name \notin { NoneText, << >> }
    /\ name # cases[id].hospital_name
    /\ ~InList(name, cases[id].rejected_history)

suggest_alternative(case_id, rejected_hospital_name, commit_ok) ==
    LET answer == SuggestAnswer(case_id, rejected_hospital_name, commit_ok)
        done == answer.code = 200
    IN  /\ cases' = SuggestStore(case_id, rejected_hospital_name, commit_ok)
        /\ last' = [Response("suggest_alternative", case_id, answer.code, answer.msg)
                      EXCEPT !.named = rejected_hospital_name,
                             !.hospital = IF done THEN cases'[case_id].hospital_name
                                          ELSE NoneText,
                             !.was = IF done THEN cases[case_id].acceptance_status
                                     ELSE None]
        /\ namedOk' = IF done /\ rejected_hospital_name \notin { NoneText, << >> }
                      THEN [namedOk EXCEPT ![case_id] = @ \cup { rejected_hospital_name }]
                      ELSE namedOk
        /\ strays' = IF done /\ IsStray(case_id, rejected_hospital_name)
                     THEN strays + 1 ELSE strays
        /\ UNCHANGED << HOSPITAL_DATA, hospital_cases, inflight >>

(***************************************************************************)
(* POST /api/receive_hospital_update/<case_id>  (ambulance side)           *)
(***************************************************************************)
\* Variant: the lookup result is not tested.
ReceiveCodeUnchecked(case_id, commit_ok) == IF commit_ok THEN 200 ELSE 500

\* The status code receive_hospital_update answers.
ReceiveCode(case_id, commit_ok) ==
    IF ~Present(case_id) THEN 404 ELSE IF commit_ok THEN 200 ELSE 500

\* Variant: the status is written to every stored case.
ReceiveStoreAll(case_id, new_status, commit_ok) ==
    IF Present(case_id) /\ commit_ok
    THEN [id \in 1..Len(cases) |->
            [cases[id] EXCEPT !.acceptance_status = new_status]]
    ELSE cases

\* Variant: the status is written although the commit failed.
ReceiveStoreUncommitted(case_id, new_status, commit_ok) ==
    IF Present(case_id)
    THEN [cases EXCEPT ![case_id].acceptance_status = new_status]
    ELSE cases

\* Variant: only a case still AWAITING RESPONSE takes the pushed status.
ReceiveStoreFirst(case_id, new_status, commit_ok) ==
    IF Present(case_id) /\ commit_ok
       /\ cases[case_id].acceptance_status = AwaitingResponse
    THEN [cases EXCEPT ![case_id].acceptance_status = new_status]
    ELSE cases

\* Variant: a case that has been re-routed does not take a pushed status.
ReceiveStoreNotRerouted(case_id, new_status, commit_ok) ==
    IF Present(case_id) /\ commit_ok /\ cases[case_id].rejected_history = << >>
    THEN [cases EXCEPT ![case_id].acceptance_status = new_status]
    ELSE cases

\* The ambulance-side table after receive_hospital_update.
ReceiveStore(case_id, new_status, commit_ok) ==
    IF Present(case_id) /\ commit_ok
    THEN [cases EXCEPT ![case_id].acceptance_status = new_status]
    ELSE cases

receive_hospital_update(case_id, new_status, commit_ok) ==
    /\ cases' = ReceiveStore(case_id, new_status, commit_ok)
    /\ last' = [Response("receive_hospital_update", case_id,
                         ReceiveCode(case_id, commit_ok), "")
                  EXCEPT !.status = IF ReceiveCode(case_id, commit_ok) = 200
                                    THEN new_status ELSE None]
    /\ UNCHANGED << HOSPITAL_DATA, hospital_cases, inflight, namedOk, strays >>

(***************************************************************************)
(* GET /api/get_case_status/<case_id>                                      *)
(***************************************************************************)
get_case_status(case_id) ==
    /\ last' = IF Present(case_id)
               THEN [Response("get_case_status", case_id, 200, "")
                       EXCEPT !.status = cases[case_id].acceptance_status]
               ELSE [Response("get_case_status", case_id, 404, "")
                       EXCEPT !.status = "NOT_FOUND"]
    /\ UNCHANGED << HOSPITAL_DATA, cases, hospital_cases, inflight, namedOk, strays >>

(***************************************************************************)
(* POST /api/update_acceptance/<case_id>  (hospital side)                  *)
(***************************************************************************)
\* Variant: the push always reports ACCEPTED.
PushAccepted(case_id, new_status) == [case_id |-> case_id, status |-> "ACCEPTED"]

\* json={"status": new_status} posted to .../receive_hospital_update/<case_id>.
Push(case_id, new_status) == [case_id |-> case_id, status |-> new_status]

\* Variant: only a missing status is refused.
InvalidStatusMissing(new_status) == new_status = None

\* Variant: every status of the enumeration passes the validation.
InvalidStatusLax(new_status) == new_status \notin ValidStatus

\* "if new_status not in [...]": the request is answered 400.
InvalidStatus(new_status) == new_status \notin Settable

MsgInvalidStatus == "Invalid status provided."
MsgCommitted == "committed"

\* The answer of update_acceptance before its outbound call: 400, 404, 500, or
\* code 0 when the local commit succeeded and the push is sent.
UpdateAnswer(case_id, new_status, commit_ok) ==
    IF InvalidStatus(new_status)
    THEN [code |-> 400, msg |-> MsgInvalidStatus]
    ELSE IF ~HospitalPresent(case_id)
    THEN [code |-> 404, msg |-> "Case not found"]
    ELSE IF ~commit_ok
    THEN [code |-> 500, msg |-> "Database error"]
    ELSE [code |-> 0, msg |-> MsgCommitted]

\* Up to the outbound call: validation, lookup, the local write and commit.
update_acceptance(case_id, new_status, commit_ok) ==
    LET answer == UpdateAnswer(case_id, new_status, commit_ok)
        committed == answer.code = 0
    IN  /\ committed => BagCardinality(inflight) < MaxInflight
        /\ hospital_cases' = IF committed
                             THEN [hospital_cases EXCEPT ![case_id] = new_status]
                             ELSE hospital_cases
        /\ inflight' = IF committed
                       THEN inflight (+) SetToBag({ Push(case_id, new_status) })
                       ELSE inflight
        /\ last' = [Response("update_acceptance", case_id, answer.code, answer.msg)
                      EXCEPT !.status = new_status]
        /\ UNCHANGED << HOSPITAL_DATA, cases, namedOk, strays >>

\* How the push ended for the hospital server: the answer's status code, or
\* "timeout" when it gave up waiting.
PushOutcome(case_id, commit_ok, answered) ==
    IF ~answered THEN "timeout"
    ELSE IF ReceiveCode(case_id, commit_ok) = 200 THEN "200"
    ELSE IF ReceiveCode(case_id, commit_ok) = 404 THEN "404"
    ELSE "500"

\* requests.post(...) reaches the ambulance server, whose handler runs; the
\* hospital server reads the answer or gives up after the 3 s timeout although
\* the handler ran.  In both cases update_acceptance answers 200.
PushDelivered(p, commit_ok, answered) ==
    /\ BagIn(p, inflight)
    /\ inflight' = inflight (-) SetToBag({ p })
    /\ cases' = ReceiveStore(p.case_id, p.status, commit_ok)
    /\ last' = [Response("update_acceptance", p.case_id, 200, "")
                  EXCEPT !.status = p.status,
                         !.push = PushOutcome(p.case_id, commit_ok, answered)]
    /\ UNCHANGED << HOSPITAL_DATA, hospital_cases, namedOk, strays >>

\* requests.post(...) raises before the request reaches the ambulance server
\* (connection refused, connect timeout); update_acceptance answers 200.
PushUndelivered(p) ==
    /\ BagIn(p, inflight)
    /\ inflight' = inflight (-) SetToBag({ p })
    /\ last' = [Response("update_acceptance", p.case_id, 200, "")
                  EXCEPT !.status = p.status, !.push = "exception"]
    /\ UNCHANGED << HOSPITAL_DATA, cases, hospital_cases, namedOk, strays >>

(***************************************************************************)
(* Specifications.                                                         *)
(***************************************************************************)
Pushes == { Push(id, st) : id \in StoredIds, st \in Settable }

\* The parameters a handler reads before it returns: a request for a case id
\* that is not stored returns at the lookup, whatever else its body carries.
NamesFor(id) == IF Present(id) THEN NameInputs ELSE { NoneText }
CommitsFor(reached) == IF reached THEN BOOLEAN ELSE { TRUE }
StatusesFor(id) == IF HospitalPresent(id) THEN StatusInputs
                   ELSE (StatusInputs \ Settable) \cup { Accepted }

\* Bounds on the histories explored.
RerouteBudget(id, name) ==
    Present(id) =>
        Len(HistoryWith(cases[id].rejected_history, name)) <= MaxReroutes
StrayBudget(id, name) ==
    (Present(id) /\ IsStray(id, name)) => strays < MaxStray

\* analyze_data is taken while fewer than MaxDispatch cases are stored.
DispatchBudget(body) == body.vitals # << >> => Len(cases) < MaxDispatch

\* The hospital server's table holds rows for the ids of DispatchStored only.
InitDispatch == Init /\ \A id \in StoredIds \ DispatchStored : hospital_cases[id] = Absent

\* Both servers, every request, every fault; dispatches from ExampleBodies.
Next ==
    \/ \E body \in ExampleBodies : \E ok \in CommitsFor(body.vitals # << >>) :
          DispatchBudget(body) /\ analyze_data(body, ok)
    \/ \E id \in DispatchIds : \E name \in NamesFor(id), ok \in CommitsFor(Present(id)) :
          RerouteBudget(id, name) /\ suggest_alternative(id, name, ok)
    \/ \E id \in DispatchIds : \E st \in StatusInputs, ok \in CommitsFor(Present(id)) :
          receive_hospital_update(id, st, ok)
    \/ \E id \in DispatchIds : get_case_status(id)
    \/ \E id \in DispatchIds : \E st \in StatusesFor(id) :
          \E ok \in CommitsFor(HospitalPresent(id) /\ st \in Settable) :
             update_acceptance(id, st, ok)
    \/ \E p \in Pushes : \E ok \in CommitsFor(Present(p.case_id)), answered \in BOOLEAN :
          PushDelivered(p, ok, answered)
    \/ \E p \in Pushes : PushUndelivered(p)

Spec == InitDispatch /\ [][Next]_vars

\* The ambulance server alone (the hospital server sends nothing): every
\* request of its API, re-routing until the directory is exhausted.
NextRouting ==
    \/ \E body \in AnalyzeBodies : \E ok \in CommitsFor(body.vitals # << >>) :
          DispatchBudget(body) /\ analyze_data(body, ok)
    \/ \E id \in DispatchIds : \E name \in NamesFor(id), ok \in CommitsFor(Present(id)) :
          StrayBudget(id, name) /\ suggest_alternative(id, name, ok)
    \/ \E id \in DispatchIds : \E st \in StatusInputs, ok \in CommitsFor(Present(id)) :
          receive_hospital_update(id, st, ok)
    \/ \E id \in DispatchIds : get_case_status(id)

\* The hospital server's table plays no part: it starts empty.
InitRouting == Init /\ hospital_cases = [id \in StoredIds |-> Absent]

SpecRouting == InitRouting /\ [][NextRouting]_vars

\* Triage inputs: vitals strings whose four scored fields take the values on
\* both sides of every threshold of calculate_mews_score, and values float()
\* rejects; age, diastolic pressure and temperature are those of the stable
\* record.
RespRateInputs ==
    { Num(80), Num(90), Num(150), Num(160), Num(200), Num(210), Num(250),
      Num(260), Txt("N/A") }

HeartRateInputs ==
    { Num(390), Num(400), Num(490), Num(500), Num(750), Num(900), Num(910),
      Num(1100), Num(1110), Num(1300), Num(1310), Txt("abc") }

SystolicInputs ==
    { Num(690), Num(700), Num(890), Num(900), Num(1200), Num(1800), Num(1810),
      Num(2000), Num(2010), Txt("") }

SpO2Inputs == { Num(890), Num(900), Num(980), Txt("N/A") }

TriageBodies ==
    AnalyzeBodies \cup
    { [vitals |-> << Num(400), bp_sys, Num(800), hr, o2, Num(986), resp_rate >>,
       symptoms |-> NoneText] :
         bp_sys \in SystolicInputs, hr \in HeartRateInputs,
         o2 \in SpO2Inputs, resp_rate \in RespRateInputs }

\* POST /api/analyze alone, over the triage inputs.
NextTriage ==
    \E body \in TriageBodies : \E ok \in CommitsFor(body.vitals # << >>) :
        DispatchBudget(body) /\ analyze_data(body, ok)

SpecTriage == InitRouting /\ [][NextTriage]_vars

\* Symptom texts: no text, no keyword, one keyword, a keyword inside another
\* ("severe" in "severe pain"), mixed case, several keywords.
SymptomTexts ==
    { NoneText, << >>,
      << "mild", " ", "headache" >>,
      << "pain" >>,
      << "severe" >>,
      << "severe", " ", "pain" >>,
      << "Severe", " ", "CHEST", " ", "PAIN" >>,
      << "unconscious" >>,
      << "unconscious", " ", "severe", " ", "pain" >> }

\* Seven numeric fields whose four scored vitals give 0, 1, 2 and 5 points.
ScoredVitals ==
    { << Num(400), Num(1200), Num(800), Num(750), Num(980), Num(986), Num(150) >>,
      << Num(400), Num(1200), Num(800), Num(750), Num(980), Num(986), Num(160) >>,
      << Num(400), Num(1200), Num(800), Num(750), Num(890), Num(986), Num(150) >>,
      << Num(400), Num(690), Num(800), Num(750), Num(890), Num(986), Num(150) >> }

SymptomBodies ==
    { [vitals |-> v, symptoms |-> t] : v \in ScoredVitals, t \in SymptomTexts }
    \cup { [vitals |-> << >>, symptoms |-> << "collapse" >>] }

\* POST /api/analyze alone, two dispatches, over vitals and symptom texts.
NextSymptoms ==
    \E body \in SymptomBodies : \E ok \in CommitsFor(body.vitals # << >>) :
        analyze_data(body, ok)

SpecSymptoms == InitRouting /\ [][NextSymptoms]_vars

\* Vitals strings that are not seven numbers: two fields only; a heart rate,
\* a temperature, an age, a diastolic pressure that float() rejects; an empty
\* systolic field; eight fields.
IrregularVitals ==
    { << Num(700), Num(850) >>,
      << Num(400), Num(1200), Num(800), Txt("abc"), Num(980), Num(986), Num(160) >>,
      << Num(400), Num(850), Num(600), Num(1350), Num(850), Txt("N/A"), Num(280) >>,
      << Txt("adult"), Num(1200), Num(800), Num(750), Num(980), Num(986), Num(160) >>,
      << Num(400), Num(1200), Txt("x"), Num(750), Num(980), Num(986), Num(160) >>,
      << Num(400), Txt(""), Num(800), Num(1350), Num(980), Num(986), Num(160) >>,
      << Num(400), Num(1200), Num(800), Num(750), Num(980), Num(986), Num(160),
         Num(990) >> }

IrregularBodies ==
    { [vitals |-> v, symptoms |-> t] :
         v \in IrregularVitals \cup ScoredVitals, t \in SymptomTexts }
    \cup { [vitals |-> << >>, symptoms |-> << "collapse" >>] }

\* POST /api/analyze alone, over regular and irregular vitals strings.
NextIrregular ==
    \E body \in IrregularBodies : \E ok \in CommitsFor(body.vitals # << >>) :
        DispatchBudget(body) /\ analyze_data(body, ok)

SpecIrregular == InitRouting /\ [][NextIrregular]_vars

\* The acceptance handshake without faults: every commit succeeds and every
\* push is delivered and answered; no re-route, no other caller of
\* receive_hospital_update.
NextHandshake ==
    \/ \E body \in ExampleBodies : DispatchBudget(body) /\ analyze_data(body, TRUE)
    \/ \E id \in DispatchStored, st \in Settable : update_acceptance(id, st, TRUE)
    \/ \E p \in Pushes : Present(p.case_id) /\ PushDelivered(p, TRUE, TRUE)

SpecHandshake == InitDispatch /\ [][NextHandshake]_vars

\* Decisions that overlap a re-route: the hospital staff submit decisions only
\* for a dispatched case that has not been re-routed, every re-route names the
\* hospital the case is routed to, and receive_hospital_update has no other
\* caller.  A push may still be in flight when the re-route happens.
NotRerouted(id) == Present(id) /\ cases[id].rejected_history = << >>

NextOverlap ==
    \/ \E body \in ExampleBodies : \E ok \in CommitsFor(body.vitals # << >>) :
          DispatchBudget(body) /\ analyze_data(body, ok)
    \/ \E id \in DispatchStored : \E st \in Settable, ok \in BOOLEAN :
          NotRerouted(id) /\ update_acceptance(id, st, ok)
    \/ \E id \in DispatchStored : \E ok \in BOOLEAN :
          /\ Present(id)
          /\ RerouteBudget(id, cases[id].hospital_name)
          /\ suggest_alternative(id, cases[id].hospital_name, ok)
    \/ \E p \in Pushes : \E ok \in CommitsFor(Present(p.case_id)), answered \in BOOLEAN :
          PushDelivered(p, ok, answered)
    \/ \E p \in Pushes : PushUndelivered(p)

SpecOverlap == InitDispatch /\ [][NextOverlap]_vars

\* Two cases side by side on both servers: every handler with a few request
\* bodies each (a re-route names the hospital the case is routed to).
FrameStatuses == { Accepted, "DIVERTED" }
FrameNames(id) == IF Present(id) THEN { cases[id].hospital_name } ELSE { NoneText }

NextFrame ==
    \/ \E body \in ExampleBodies : \E ok \in CommitsFor(body.vitals # << >>) :
          analyze_data(body, ok)
    \/ \E id \in CaseIds : \E name \in FrameNames(id), ok \in CommitsFor(Present(id)) :
          RerouteBudget(id, name) /\ suggest_alternative(id, name, ok)
    \/ \E id \in CaseIds : \E st \in FrameStatuses, ok \in CommitsFor(Present(id)) :
          receive_hospital_update(id, st, ok)
    \/ \E id \in CaseIds : get_case_status(id)
    \/ \E id \in CaseIds : \E st \in { Rejected, AwaitingResponse } :
          \E ok \in CommitsFor(HospitalPresent(id) /\ st \in Settable) :
             update_acceptance(id, st, ok)
    \/ \E p \in Pushes : \E ok \in CommitsFor(Present(p.case_id)), answered \in BOOLEAN :
          PushDelivered(p, ok, answered)
    \/ \E p \in Pushes : PushUndelivered(p)

SpecFrame == Init /\ [][NextFrame]_vars

\* Both servers with an empty directory.
SpecNoDirectory == InitNoDirectory /\ [][NextFrame]_vars

\* Re-routing to exhaustion: two dispatches, and re-routes that name the
\* hospital the case is routed to, as often as the caller likes.
NextExhaust ==
    \/ \E body \in AnalyzeBodies : \E ok \in CommitsFor(body.vitals # << >>) :
          analyze_data(body, ok)
    \/ \E id \in CaseIds : \E name \in FrameNames(id), ok \in CommitsFor(Present(id)) :
          suggest_alternative(id, name, ok)
    \/ \E id \in CaseIds : get_case_status(id)

SpecExhaust == InitRouting /\ [][NextExhaust]_vars

(***************************************************************************)
(* Properties.                                                             *)
(***************************************************************************)
KKHospital == base_hospitals[3].name
AsterCMIHospital == base_hospitals[5].name

\* C1 (as stated): in every reachable state of the ambulance server, after any
\* analyze, suggest-alternative or receive_hospital_update with any body, the
\* acceptance_status of every stored case is one of AWAITING RESPONSE,
\* ACCEPTED, REJECTED, ON HOLD.
C1_StatusInEnumeration ==
    \A id \in 1..Len(cases) : cases[id].acceptance_status \in ValidStatus

\* C2: an update_acceptance whose status is not ACCEPTED, REJECTED or ON HOLD
\* (AWAITING RESPONSE and a missing status included) answers 400, leaves the
\* hospital-side table unchanged, sends no push and so leaves the ambulance
\* side unchanged.
C2_InvalidStatusRefused ==
    [][ (last'.op = "update_acceptance" /\ last'.status \notin Settable)
        => /\ last'.code = 400
           /\ hospital_cases' = hospital_cases
           /\ inflight' = inflight
           /\ cases' = cases ]_vars

\* C2 witness: AWAITING RESPONSE was refused for a case the hospital side had
\* already rejected.
C2_Witness ==
    /\ last.op = "update_acceptance" /\ last.code = 400
    /\ last.status = AwaitingResponse
    /\ HospitalPresent(last.case_id)
    /\ hospital_cases[last.case_id] = Rejected

\* C3 (as stated): when the push of a committed update_acceptance fails
\* (exception, timeout, 404 or 500 answer) the hospital-side table is not
\* rolled back, the request answers 200 and the ambulance-side table is left
\* as it was.
C3_FailedPushLeavesAmbulance ==
    [][ (last'.op = "update_acceptance" /\ last'.push \notin { "", "200" })
        => /\ last'.code = 200
           /\ hospital_cases' = hospital_cases
           /\ cases' = cases ]_vars

\* C3 (amended): when the push of a committed update_acceptance fails, the
\* hospital-side table is not rolled back and the request answers 200; the
\* ambulance-side table is left as it was when the push raised before it was
\* delivered or was answered 404 or 500 (after a timeout the ambulance server
\* may have applied the pushed status).
C3_FailedPushKeepsCommit ==
    [][ (last'.op = "update_acceptance" /\ last'.push \notin { "", "200" })
        => /\ last'.code = 200
           /\ hospital_cases' = hospital_cases
           /\ last'.push \in { "exception", "404", "500" } => cases' = cases ]_vars

\* C3 witness: the push was answered 500; the hospital side holds the new
\* status, the ambulance side another one.
C3_Witness ==
    /\ last.op = "update_acceptance" /\ last.code = 200 /\ last.push = "500"
    /\ Present(last.case_id) /\ HospitalPresent(last.case_id)
    /\ hospital_cases[last.case_id] = last.status
    /\ cases[last.case_id].acceptance_status # last.status

\* C4: once a suggest-alternative naming hospital A has succeeded for a case,
\* no suggest-alternative for that case returns A or stores A as hospital_name.
C4_NamedHospitalNeverAgain ==
    \A id \in 1..Len(cases) :
        /\ cases[id].hospital_name \notin namedOk[id]
        /\ (last.op = "suggest_alternative" /\ last.code = 200 /\ last.case_id = id)
              => last.hospital \notin namedOk[id]

\* C4 witness: a third re-route naming a third hospital succeeded.
C4_Witness ==
    /\ last.op = "suggest_alternative" /\ last.code = 200
    /\ Cardinality(namedOk[last.case_id]) >= 3

\* C5: in every reachable state the hospital_name of a case is not an element
\* of its rejected_history.
C5_CurrentNotInHistory ==
    \A id \in 1..Len(cases) :
        ~InList(cases[id].hospital_name, cases[id].rejected_history)

\* C5 witness: a history of three names, one of them not the name of any
\* directory hospital.
C5_Witness ==
    \E id \in 1..Len(cases) :
        /\ Len(cases[id].rejected_history) >= 3
        /\ InList(UnlistedName, cases[id].rejected_history)

\* C6: a suggest-alternative for which every directory hospital is in the
\* history (the stored history plus the current_hospital of the request)
\* answers 404 and leaves the case record as it was.
C6_ExhaustedLeavesCase ==
    [][ ( /\ last'.op = "suggest_alternative"
          /\ Present(last'.case_id)
          /\ Remaining(HOSPITAL_DATA,
                       HistoryWith(cases[last'.case_id].rejected_history,
                                   last'.named)) = << >> )
        => /\ last'.code = 404
           /\ last'.msg = MsgNoOtherHospitals
           /\ cases' = cases ]_vars

\* C6 witness: the request named the sixth hospital of an accepted case whose
\* stored history holds the other five.
C6_Witness ==
    /\ last.op = "suggest_alternative" /\ last.code = 404
    /\ last.msg = MsgNoOtherHospitals
    /\ last.named = cases[last.case_id].hospital_name
    /\ Len(cases[last.case_id].rejected_history) = 5
    /\ cases[last.case_id].acceptance_status = Accepted

\* C7: right after every successful analyze (a case was created) and every
\* successful suggest-alternative, the acceptance_status of the case is
\* AWAITING RESPONSE, whatever it was before.
C7_AwaitingAfterRouting ==
    /\ (last.op = "analyze" /\ last.new_case_id # NullId)
          => cases[last.new_case_id].acceptance_status = AwaitingResponse
    /\ (last.op = "suggest_alternative" /\ last.code = 200)
          => cases[last.case_id].acceptance_status = AwaitingResponse

\* C7 witness: a re-route succeeded for a case that was ACCEPTED.
C7_Witness ==
    /\ last.op = "suggest_alternative" /\ last.code = 200
    /\ last.was = Accepted

\* C8: when update_acceptance requests for one case interleave, each side
\* takes every write made on it (the hospital side the commit, the ambulance
\* side the delivered push), so each side ends with the last write applied on
\* that side.
C8_LastWriteWinsPerSide ==
    [][ /\ (last'.op = "update_acceptance" /\ last'.msg = MsgCommitted)
           => /\ hospital_cases'[last'.case_id] = last'.status
              /\ cases' = cases
        /\ (last'.op = "update_acceptance" /\ last'.push = "200")
           => /\ cases'[last'.case_id].acceptance_status = last'.status
              /\ hospital_cases' = hospital_cases ]_vars

\* C8 witness: two requests with different statuses have both completed, both
\* pushes were delivered and answered, and the two sides hold different
\* statuses.
C8_Witness ==
    /\ inflight = EmptyBag
    /\ last.op = "update_acceptance" /\ last.push = "200"
    /\ Present(last.case_id)
    /\ hospital_cases[last.case_id] = Rejected
    /\ cases[last.case_id].acceptance_status = Accepted

\* C9 (as stated): the selected hospital is the first candidate in directory
\* order whose product distance_km * traffic_factor is minimal; K K Hospital
\* and Aster CMI Hospital tie and K K Hospital is chosen.
C9_FirstMinimalExactProduct ==
    (last.op = "suggest_alternative" /\ last.code = 200)
    => LET candidates ==
               Remaining(HOSPITAL_DATA, cases[last.case_id].rejected_history)
           Product(h) == h.distance_km * h.traffic_factor
       IN  \E i \in 1..Len(candidates) :
              /\ candidates[i].name = last.hospital
              /\ \A j \in 1..Len(candidates) :
                    /\ Product(candidates[j]) >= Product(candidates[i])
                    /\ j < i => Product(candidates[j]) > Product(candidates[i])

\* C9 (amended): the selected hospital is the first candidate in directory
\* order whose double-precision product distance_km * traffic_factor is
\* minimal; with the reference data K K Hospital and Aster CMI Hospital do not
\* tie (7.2 * 1.3 evaluates above 7.8 * 1.2) and K K Hospital is not chosen
\* while Aster CMI Hospital is a candidate.
C9_FirstMinimalFloatProduct ==
    (last.op \in { "analyze", "suggest_alternative" } /\ last.code = 200
     /\ last.hospital # NoneText)
    => LET candidates ==
               IF last.op = "analyze"
               THEN Eligible(HOSPITAL_DATA, last.is_critical)
               ELSE Remaining(HOSPITAL_DATA, cases[last.case_id].rejected_history)
       IN  /\ \E i \in 1..Len(candidates) :
                 /\ candidates[i].name = last.hospital
                 /\ \A j \in 1..Len(candidates) :
                       /\ RouteCost(candidates[j]) >= RouteCost(candidates[i])
                       /\ j < i => RouteCost(candidates[j]) > RouteCost(candidates[i])
           /\ (\E j \in 1..Len(candidates) : candidates[j].name = AsterCMIHospital)
                 => last.hospital # KKHospital

\* C9 witness: Aster CMI Hospital was selected while K K Hospital, earlier in
\* the directory, was a candidate.
C9_Witness ==
    /\ last.op = "suggest_alternative" /\ last.code = 200
    /\ last.hospital = AsterCMIHospital
    /\ cases[last.case_id].hospital_name = AsterCMIHospital
    /\ ~InList(KKHospital, cases[last.case_id].rejected_history)

\* C10 (as stated): a critical dispatch selects a tag-matching hospital
\* whenever one exists and returns a non-null new_case_id.
C10_CriticalAlwaysStored ==
    (last.op = "analyze" /\ last.code = 200 /\ last.is_critical)
    => /\ \E i \in 1..Len(HOSPITAL_DATA) :
             HOSPITAL_DATA[i].name = last.hospital /\ TagMatch(HOSPITAL_DATA[i])
       /\ last.new_case_id # NullId

\* C10 (amended): in analyze the candidates of a critical case are exactly the
\* directory hospitals whose specialty contains a target tag, and the whole
\* directory when there is none or the case is not critical; a critical
\* dispatch selects a tag-matching hospital whenever one exists, and it
\* returns a non-null new_case_id and stores that hospital unless the commit
\* fails (then new_case_id is null and nothing is stored).
C10_CriticalCandidates ==
    [][ (last'.op = "analyze" /\ last'.code = 200)
        => LET tagged == SelectSeq(HOSPITAL_DATA, TagMatch)
               candidates == IF last'.is_critical /\ tagged # << >>
                             THEN tagged ELSE HOSPITAL_DATA
           IN  /\ last'.hospital = BestHospital(candidates).name
               /\ (last'.is_critical /\ tagged # << >>)
                     => \E i \in 1..Len(tagged) : tagged[i].name = last'.hospital
               /\ IF last'.new_case_id = NullId
                  THEN cases' = cases
                  ELSE /\ last'.new_case_id = Len(cases) + 1
                       /\ Len(cases') = Len(cases) + 1
                       /\ cases'[last'.new_case_id].hospital_name = last'.hospital ]_vars

\* C10 witness: the critical example dispatch stored a case routed to a
\* tag-matching hospital.
C10_Witness ==
    /\ last.op = "analyze" /\ last.is_critical /\ last.new_case_id # NullId
    /\ cases[last.new_case_id].is_critical
    /\ cases[last.new_case_id].hospital_name = last.hospital
    /\ \E t \in 1..Len(target_tags) :
          Contains(target_tags[t], cases[last.new_case_id].hospital_specialty)

C12_AppendedIsRoutedHospital ==
    [][ \A id \in 1..Len(cases) :
           cases'[id].rejected_history # cases[id].rejected_history
           => /\ last'.op = "suggest_alternative"
              /\ last'.case_id = id
              /\ cases'[id].rejected_history =
                    Append(cases[id].rejected_history, cases[id].hospital_name) ]_vars

\* C13: in every reachable state the rejected_history of a case holds no name
\* twice, and every step leaves the list stored before as a prefix of the list
\* stored after it (no entry is removed or reordered), also when a
\* current_hospital is submitted again.
C13_HistoryAppendOnly ==
    [][ /\ \A id \in 1..Len(cases') :
              \A i, j \in 1..Len(cases'[id].rejected_history) :
                 cases'[id].rejected_history[i] = cases'[id].rejected_history[j]
                 => i = j
        /\ \A id \in 1..Len(cases) :
              /\ Len(cases[id].rejected_history) <= Len(cases'[id].rejected_history)
              /\ SubSeq(cases'[id].rejected_history, 1,
                        Len(cases[id].rejected_history)) = cases[id].rejected_history
      ]_vars

\* C13 witness: a re-route succeeded whose current_hospital was already in the
\* history, before its last entry.
C13_Witness ==
    /\ last.op = "suggest_alternative" /\ last.code = 200
    /\ LET history == cases[last.case_id].rejected_history
       IN  /\ Len(history) >= 2
           /\ InList(last.named, SubSeq(history, 1, Len(history) - 1))

\* C14: receive_hospital_update (called directly or by the push of an
\* update_acceptance) changes at most the acceptance_status of the addressed
\* case: its other fields, every other case and the hospital-side table are
\* unchanged; get_case_status changes nothing; update_acceptance changes
\* nothing on the ambulance side before its push and on the hospital side
\* nothing but the acceptance_status of the addressed row.
C14_StatusUpdatesFrame ==
    [][ /\ (\/ last'.op = "receive_hospital_update"
            \/ (last'.op = "update_acceptance" /\ last'.push # ""))
           => /\ hospital_cases' = hospital_cases
              /\ Len(cases') = Len(cases)
              /\ \A id \in 1..Len(cases) :
                    IF id = last'.case_id
                    THEN [cases'[id] EXCEPT !.acceptance_status =
                                               cases[id].acceptance_status] = cases[id]
                    ELSE cases'[id] = cases[id]
        /\ last'.op = "get_case_status"
           => /\ cases' = cases
              /\ hospital_cases' = hospital_cases
              /\ inflight' = inflight
        /\ (last'.op = "update_acceptance" /\ last'.push = "")
           => /\ cases' = cases
              /\ \A id \in StoredIds :
                    /\ id # last'.case_id => hospital_cases'[id] = hospital_cases[id]
                    /\ hospital_cases'[id] = Absent <=> hospital_cases[id] = Absent
      ]_vars

\* C14 witness: of two stored cases, a re-routed one was set to ACCEPTED by
\* receive_hospital_update while the other one is AWAITING RESPONSE.
C14_Witness ==
    /\ last.op = "receive_hospital_update" /\ last.code = 200
    /\ Len(cases) = 2
    /\ cases[last.case_id].rejected_history # << >>
    /\ cases[last.case_id].acceptance_status = Accepted
    /\ cases[3 - last.case_id].acceptance_status = AwaitingResponse

\* C15: a step whose store commit fails leaves the stores as they were: an
\* analyze that found a route and returns a null new_case_id adds no case; a
\* suggest-alternative that answers 500 leaves the case with its hospital,
\* ETA, status and history; an update_acceptance that answers 500 leaves the
\* hospital-side table unchanged and sends no push.
C15_FailedCommitLeavesStore ==
    [][ /\ (last'.op = "analyze" /\ last'.code = 200 /\ last'.new_case_id = NullId)
           => cases' = cases
        /\ (last'.op = "suggest_alternative" /\ last'.code # 200)
           => /\ cases' = cases
              /\ last'.code \in { 404, 500 }
        /\ (last'.op = "update_acceptance" /\ last'.code = 500)
           => /\ hospital_cases' = hospital_cases
              /\ inflight' = inflight
              /\ cases' = cases
      ]_vars

\* C15 witness: the commit of a re-route failed; the accepted case is still
\* routed to the hospital the request named.
C15_Witness ==
    /\ last.op = "suggest_alternative" /\ last.code = 500
    /\ last.named = cases[last.case_id].hospital_name
    /\ cases[last.case_id].acceptance_status = Accepted

C17_AbsentCaseAnswers404 ==
    [][ ( \/ /\ last'.op \in { "suggest_alternative", "receive_hospital_update",
                               "get_case_status" }
             /\ ~Present(last'.case_id)
          \/ /\ last'.op = "update_acceptance" /\ last'.push = ""
             /\ ~HospitalPresent(last'.case_id) )
        => /\ last'.code = 404
           /\ cases' = cases
           /\ hospital_cases' = hospital_cases
           /\ inflight' = inflight ]_vars

\* C17 (amended): addressed to a case id absent from the store they consult,
\* suggest-alternative, receive_hospital_update and get_case_status answer
\* 404, and update_acceptance answers 404 when its status is ACCEPTED,
\* REJECTED or ON HOLD and 400 otherwise (the status is validated before the
\* lookup); none changes a record on either side and no push is sent.
C17_AbsentCaseRefused ==
    [][ /\ ( /\ last'.op \in { "suggest_alternative", "receive_hospital_update",
                               "get_case_status" }
             /\ ~Present(last'.case_id) )
           => /\ last'.code = 404
              /\ cases' = cases
              /\ hospital_cases' = hospital_cases
              /\ inflight' = inflight
        /\ ( /\ last'.op = "update_acceptance" /\ last'.push = ""
             /\ ~HospitalPresent(last'.case_id) )
           => /\ last'.code = IF last'.status \in Settable THEN 404 ELSE 400
              /\ cases' = cases
              /\ hospital_cases' = hospital_cases
              /\ inflight' = inflight ]_vars

\* C17 witness: update_acceptance answered 404 for a case the ambulance server
\* stores and the hospital server does not.
C17_Witness ==
    /\ last.op = "update_acceptance" /\ last.code = 404
    /\ Present(last.case_id)
    /\ ~HospitalPresent(last.case_id)

\* C18: case records are never deleted and their ids never change.  Every step
\* keeps each stored record under its id with the fields written at creation;
\* a record is added only by an analyze call that stores a case (it answers a
\* new_case_id), which adds exactly one record under the fresh id it answers;
\* no other step adds or removes a record on either side.
C18_RecordsOnlyAdded ==
    [][ /\ Len(cases') >= Len(cases)
        /\ \A id \in 1..Len(cases) :
              /\ cases'[id].vitals_snapshot = cases[id].vitals_snapshot
              /\ cases'[id].ai_prediction = cases[id].ai_prediction
              /\ cases'[id].is_critical = cases[id].is_critical
              /\ cases'[id].mews_score = cases[id].mews_score
        /\ (last'.op = "analyze" /\ last'.new_case_id # NullId)
           => /\ Len(cases') = Len(cases) + 1
              /\ last'.new_case_id = Len(cases')
              /\ ~Present(last'.new_case_id)
        /\ ~(last'.op = "analyze" /\ last'.new_case_id # NullId)
           => Len(cases') = Len(cases)
        /\ \A id \in DOMAIN hospital_cases :
              HospitalPresent(id) <=> hospital_cases'[id] # Absent ]_vars

\* C18 witness: a second case was stored under id 2 after the first case had
\* been re-routed.
C18_Witness ==
    /\ last.op = "analyze" /\ last.new_case_id = 2
    /\ Len(cases) = 2
    /\ cases[1].rejected_history # << >>

\* C19: the early-warning score stored with a case is the sum of the table's
\* points for respiratory rate, heart rate, systolic pressure and SpO2 when
\* the four are numeric: it lies in 0..11, and a respiratory rate below 9
\* contributes exactly 3 whatever the other vitals; it is 0 when any of the
\* four is not numeric.  (Values in tenths.)
C19_MewsIsTableSum ==
    LET RespPoints(v) ==
            CASE v < 90 -> 3
              [] v >= 90 /\ v <= 150 -> 0
              [] v > 150 /\ v <= 200 -> 1
              [] v > 200 /\ v <= 250 -> 2
              [] v > 250 -> 3
        HeartPoints(v) ==
            CASE v < 400 -> 3
              [] v >= 400 /\ v < 500 -> 1
              [] v >= 500 /\ v <= 900 -> 0
              [] v > 900 /\ v <= 1100 -> 1
              [] v > 1100 /\ v <= 1300 -> 2
              [] v > 1300 -> 3
        SystolicPoints(v) ==
            CASE v < 700 -> 3
              [] v >= 700 /\ v < 900 -> 2
              [] v >= 900 /\ v <= 1800 -> 0
              [] v > 1800 /\ v <= 2000 -> 1
              [] v > 2000 -> 3
        SpO2Points(v) == IF v < 900 THEN 2 ELSE 0
    IN  \A id \in 1..Len(cases) :
            LET v == cases[id].vitals_snapshot
                others == HeartPoints(v[4].v) + SystolicPoints(v[2].v)
                          + SpO2Points(v[5].v)
            IN  IF v[2].num /\ v[4].num /\ v[5].num /\ v[7].num
                THEN /\ cases[id].mews_score = RespPoints(v[7].v) + others
                     /\ cases[id].mews_score \in 0..11
                     /\ v[7].v < 90 => cases[id].mews_score = 3 + others
                ELSE cases[id].mews_score = 0

\* C19 witness: a stored case whose four scored vitals are numeric, whose
\* respiratory rate is below 9 and whose score is the maximum, 11.
C19_Witness ==
    \E id \in 1..Len(cases) :
        LET v == cases[id].vitals_snapshot
        IN  /\ v[2].num /\ v[4].num /\ v[5].num /\ v[7].num
            /\ v[7].v < 90
            /\ cases[id].mews_score = 11

\* The all-normal record ["40","120","80","75","98","98.6","16"].
StableVitals ==
    << Num(400), Num(1200), Num(800), Num(750), Num(980), Num(986), Num(160) >>

\* C20 (as stated): the early-warning score of the all-normal record is 0.
C20_StableScoresZero ==
    \A id \in 1..Len(cases) :
        cases[id].vitals_snapshot = StableVitals => cases[id].mews_score = 0

\* C20 (amended): the early-warning score of the all-normal record is 1:
\* respiratory rate 16 is above 15 and contributes 1 point; heart rate 75,
\* systolic pressure 120 and SpO2 98 contribute 0 each.
C20_StableScoresOne ==
    \A id \in 1..Len(cases) :
        cases[id].vitals_snapshot = StableVitals
        => /\ cases[id].mews_score = 1
           /\ MewsPoints(160, 750, 1200, 980) = 1
           /\ MewsPoints(150, 750, 1200, 980) = 0

\* C20 witness: a case with the all-normal record is stored, with score 1.
C20_Witness ==
    \E id \in 1..Len(cases) :
        /\ cases[id].vitals_snapshot = StableVitals
        /\ cases[id].mews_score = 1

\* C21: for numeric vitals the prediction stored with a case follows
\* total = (four-vital points of the MEWS table) + 2 x (number of the 13 danger
\* keywords occurring in the lower-cased symptoms, each counted on its own, so
\* "severe pain" counts "severe" and "severe pain"): Likely Critical and
\* critical when total >= 6, Potentially Serious and critical when
\* 3 <= total <= 5, Stable / Non-critical and not critical when total < 3.
C21_TotalRiskDecides ==
    \A id \in 1..Len(cases) :
        LET v == cases[id].vitals_snapshot
            text == IF cases[id].symptoms_snapshot = NoneText THEN << >>
                    ELSE Lower(cases[id].symptoms_snapshot)
            matched == { k \in 1..Len(dangerous_keywords) :
                            Contains(dangerous_keywords[k], text) }
            total == MewsPoints(v[7].v, v[4].v, v[2].v, v[5].v)
                     + 2 * Cardinality(matched)
        IN  (\A k \in {1, 2, 4, 5, 6, 7} : v[k].num)
            => /\ Len(dangerous_keywords) = 13
               /\ text = << "severe", " ", "pain" >> => Cardinality(matched) = 2
               /\ total >= 6
                  => /\ cases[id].ai_prediction = PredLikelyCritical
                     /\ cases[id].is_critical
               /\ (total >= 3 /\ total <= 5)
                  => /\ cases[id].ai_prediction = PredPotentiallySerious
                     /\ cases[id].is_critical
               /\ total < 3
                  => /\ cases[id].ai_prediction = PredStable
                     /\ ~cases[id].is_critical

\* C21 witness: 2 points from the vitals and the text "severe pain" give
\* total 6: the stored prediction is Likely Critical.
C21_Witness ==
    \E id \in 1..Len(cases) :
        /\ cases[id].symptoms_snapshot = << "severe", " ", "pain" >>
        /\ cases[id].mews_score = 2
        /\ cases[id].ai_prediction = PredLikelyCritical
        /\ cases[id].is_critical

\* C22: for two stored cases with the same vitals, when the symptoms of the
\* second match every danger keyword the symptoms of the first match plus
\* exactly one more, the total risk of the second is not lower and its result
\* is not downgraded: critical stays critical, Likely Critical stays Likely
\* Critical.
C22_MoreKeywordsNeverDowngrade ==
    \A i, j \in 1..Len(cases) :
        LET Text(id) == IF cases[id].symptoms_snapshot = NoneText THEN << >>
                        ELSE Lower(cases[id].symptoms_snapshot)
            Matched(id) == { k \in 1..Len(dangerous_keywords) :
                                Contains(dangerous_keywords[k], Text(id)) }
        IN  ( /\ cases[i].vitals_snapshot = cases[j].vitals_snapshot
              /\ Matched(i) \subseteq Matched(j)
              /\ Cardinality(Matched(j)) = Cardinality(Matched(i)) + 1 )
            => /\ total_risk(cases[j].vitals_snapshot, cases[j].symptoms_snapshot)
                  >= total_risk(cases[i].vitals_snapshot, cases[i].symptoms_snapshot)
               /\ cases[i].is_critical => cases[j].is_critical
               /\ cases[i].ai_prediction = PredLikelyCritical
                  => cases[j].ai_prediction = PredLikelyCritical

\* C22 witness: the same vitals stored with "severe" and with "severe pain";
\* the first case is Potentially Serious, the second Likely Critical.
C22_Witness ==
    \E i, j \in 1..Len(cases) :
        /\ cases[i].vitals_snapshot = cases[j].vitals_snapshot
        /\ cases[i].symptoms_snapshot = << "severe" >>
        /\ cases[j].symptoms_snapshot = << "severe", " ", "pain" >>
        /\ cases[i].ai_prediction = PredPotentiallySerious
        /\ cases[j].ai_prediction = PredLikelyCritical

\* C23 (as stated): when the vitals string has fewer than 7 fields or a field
\* that is not a number, the criticality decision scores the per-field
\* default (systolic 120, heart rate 80, SpO2 98, respiratory rate 16) in
\* place of each missing or invalid field and the other fields normally.
C23_DefaultsSubstituted ==
    \A id \in 1..Len(cases) :
        LET v == cases[id].vitals_snapshot
            Field(k, default) == IF v[k].num THEN v[k].v ELSE default
            text == IF cases[id].symptoms_snapshot = NoneText THEN << >>
                    ELSE Lower(cases[id].symptoms_snapshot)
            matched == { k \in 1..Len(dangerous_keywords) :
                            Contains(dangerous_keywords[k], text) }
            total == MewsPoints(Field(7, 160), Field(4, 800), Field(2, 1200),
                                Field(5, 980))
                     + 2 * Cardinality(matched)
        IN  /\ cases[id].is_critical <=> total >= 3
            /\ cases[id].ai_prediction =
                  IF total >= 6 THEN PredLikelyCritical
                  ELSE IF total >= 3 THEN PredPotentiallySerious
                  ELSE PredStable

\* C24: when age, systolic pressure, heart rate, SpO2, temperature or
\* respiratory rate is present but not a number, the prediction is
\* UNDETERMINED and not critical, whatever the symptoms and whatever the
\* early-warning score of the same vitals; analyze_data answers 200 and routes
\* the case over the whole directory.
C24_MalformedUndetermined ==
    \A id \in 1..Len(cases) :
        LET v == cases[id].vitals_snapshot
        IN  (\E k \in {1, 2, 4, 5, 6, 7} : v[k].s # "" /\ ~v[k].num)
            => /\ cases[id].ai_prediction = PredUndetermined
               /\ ~cases[id].is_critical
               /\ cases[id].hospital_name = BestHospital(HOSPITAL_DATA).name
               /\ (last.op = "analyze" /\ last.new_case_id = id)
                  => /\ last.code = 200
                     /\ ~last.is_critical
                     /\ last.hospital = BestHospital(HOSPITAL_DATA).name

\* C24 witness: a temperature that is not a number, three danger keywords in
\* the symptoms and an early-warning score of 10: stored as UNDETERMINED.
C24_Witness ==
    /\ last.op = "analyze" /\ last.code = 200 /\ Present(last.new_case_id)
    /\ LET c == cases[last.new_case_id]
       IN  /\ ~c.vitals_snapshot[6].num
           /\ c.mews_score = 10
           /\ c.symptoms_snapshot = << "unconscious", " ", "severe", " ", "pain" >>
           /\ c.ai_prediction = PredUndetermined

\* C25 (as stated): the vitals_snapshot of every stored case has exactly 7
\* fields, whether the vitals string received had fewer, 7 or more.
C25_SevenFieldsStored ==
    \A id \in 1..Len(cases) : Len(cases[id].vitals_snapshot) = 7

C27_PushFollowsCommit ==
    [][ /\ inflight' # inflight
           => \/ /\ last'.op = "update_acceptance" /\ last'.push = ""
                 /\ last'.msg = MsgCommitted
                 /\ last'.status \in Settable
                 /\ hospital_cases'[last'.case_id] = last'.status
                 /\ inflight' = inflight (+) SetToBag({ [case_id |-> last'.case_id,
                                                         status |-> last'.status] })
              \/ /\ last'.op = "update_acceptance" /\ last'.push # ""
                 /\ BagIn([case_id |-> last'.case_id, status |-> last'.status],
                          inflight)
                 /\ inflight' = inflight (-) SetToBag({ [case_id |-> last'.case_id,
                                                         status |-> last'.status] })
        /\ (last'.op = "update_acceptance" /\ last'.push = ""
            /\ last'.msg # MsgCommitted)
           => inflight' = inflight
        /\ (last'.op = "update_acceptance" /\ last'.push # "")
           => /\ BagCardinality(inflight') = BagCardinality(inflight) - 1
              /\ \A id \in 1..Len(cases) :
                    cases'[id] # cases[id]
                    => /\ id = last'.case_id
                       /\ cases'[id].acceptance_status = last'.status ]_vars

\* C27 witness: the push of a committed REJECTED was lost; nothing is left in
\* flight and the two sides differ.
C27_Witness ==
    /\ last.op = "update_acceptance" /\ last.push = "exception"
    /\ last.status = Rejected
    /\ inflight = EmptyBag
    /\ hospital_cases[last.case_id] = Rejected
    /\ Present(last.case_id)
    /\ cases[last.case_id].acceptance_status = AwaitingResponse

\* C28: no operation writes AWAITING RESPONSE to the hospital-side table: a
\* row that has left AWAITING RESPONSE never returns to it, and a re-route on
\* the ambulance side leaves the hospital-side table unchanged.
C28_HospitalNeverAwaitsAgain ==
    [][ /\ \A id \in StoredIds :
              hospital_cases'[id] = AwaitingResponse
              => hospital_cases[id] = AwaitingResponse
        /\ last'.op = "suggest_alternative" => hospital_cases' = hospital_cases ]_vars

\* C28 witness: a case that was REJECTED on both sides has been re-routed; the
\* ambulance side shows AWAITING RESPONSE, the hospital side still REJECTED.
C28_Witness ==
    /\ last.op = "suggest_alternative" /\ last.code = 200
    /\ last.was = Rejected
    /\ cases[last.case_id].acceptance_status = AwaitingResponse
    /\ hospital_cases[last.case_id] = Rejected

\* C29: a pushed status is applied to the case whatever hospital the case is
\* routed to: every push the ambulance server answers 200 sets the case's
\* acceptance_status to the pushed status and leaves its routing and history
\* as they are, also when the case has been re-routed since the decision.
C29_PushIgnoresRouting ==
    [][ (last'.op = "update_acceptance" /\ last'.push = "200")
        => /\ cases'[last'.case_id] =
                 [cases[last'.case_id] EXCEPT !.acceptance_status = last'.status]
           /\ cases'[last'.case_id].acceptance_status \in Settable ]_vars

\* C29 witness: every decision was submitted before the re-route (NextOverlap
\* admits no other), and its push was answered 200 after it: the case shows
\* ACCEPTED for the hospital it was re-routed to.
C29_Witness ==
    /\ last.op = "update_acceptance" /\ last.push = "200"
    /\ Present(last.case_id)
    /\ LET c == cases[last.case_id]
       IN  /\ c.rejected_history # << >>
           /\ ~InList(c.hospital_name, c.rejected_history)
           /\ c.acceptance_status = Accepted

\* C30: when every suggest-alternative call names the hospital the case is
\* routed to, no hospital is assigned to a case twice, the successively
\* assigned hospitals have non-decreasing distance_km * traffic_factor, and
\* with the 6-hospital directory exactly 5 calls succeed for a case: a call
\* succeeds when fewer than 5 have succeeded (and its commit succeeds) and
\* answers 404 after that.
C30_RerouteTerminates ==
    [][ LET Entry(name) == CHOOSE k \in 1..Len(HOSPITAL_DATA) :
                              HOSPITAL_DATA[k].name = name
            Cost(name) == RouteCost(HOSPITAL_DATA[Entry(name)])
            Once(c) ==
                /\ ~InList(c.hospital_name, c.rejected_history)
                /\ \A i, j \in 1..Len(c.rejected_history) :
                      c.rejected_history[i] = c.rejected_history[j] => i = j
        IN  /\ Len(HOSPITAL_DATA) = 6
            /\ \A id \in 1..Len(cases') :
                  Once(cases'[id]) /\ Len(cases'[id].rejected_history) <= 5
            /\ (last'.op = "suggest_alternative" /\ Present(last'.case_id))
               => LET id == last'.case_id
                      succeeded == Len(cases[id].rejected_history)
                  IN  /\ last'.code = 200
                         => /\ succeeded < 5
                            /\ Len(cases'[id].rejected_history) = succeeded + 1
                            /\ cases'[id].hospital_name # cases[id].hospital_name
                            /\ Cost(cases'[id].hospital_name)
                                  >= Cost(cases[id].hospital_name)
                      /\ last'.code = 404 <=> succeeded = 5
                      /\ last'.code # 200 => cases' = cases ]_vars

\* C30 witness: five re-routes of a case succeeded and the sixth call was
\* answered 404: no other hospital is left.
C30_Witness ==
    /\ last.op = "suggest_alternative" /\ last.code = 404
    /\ last.msg = MsgNoOtherHospitals
    /\ Len(cases[last.case_id].rejected_history) = 5

====
